---------------------------- MODULE Spec2Model ----------------------------
(***************************************************************************)
(* A model of Ngram_Language_Model (src/ex1.py): training (build_model),   *)
(* generation (generate) and scoring (evaluate).                           *)
(*                                                                         *)
(* A Python str is a sequence of one-character strings; a token is a str.  *)
(* A Python dict is a sequence of <<key, value>> pairs in insertion order. *)
(* A Python float quotient a / b is the pair <<a, b>>; math.log of a       *)
(* product is the sum of the logs, so a sum of log terms is kept as the    *)
(* sequence of its terms.                                                  *)
(***************************************************************************)
EXTENDS Integers, Sequences, FiniteSets

VARIABLES n, use_chars, model_dict, V, context_by_n, contexts_prob,
          built, trained_on, call, ret

vars == <<n, use_chars, model_dict, V, context_by_n, contexts_prob,
          built, trained_on, call, ret>>

(* ------------------------------ bounds -------------------------------- *)

MaxN == 3

MaxCorpusLen == 4

MaxSeedLen == 1

MaxTarget == 2

MaxTextLen == 2

MaxBuilds == 2

SP == " "

Chars == {"a", SP}

RECURSIVE StrsOfLen(_)
StrsOfLen(k) ==
    IF k = 0 THEN {<<>>}
    ELSE {Append(s, c) : s \in StrsOfLen(k - 1), c \in Chars}

Strs(maxLen) == UNION {StrsOfLen(k) : k \in 0..maxLen}

(* ------------------------- Python primitives -------------------------- *)

Max(a, b) == IF a > b THEN a ELSE b

Min(a, b) == IF a < b THEN a ELSE b

\* s[lo:hi] for 0 <= lo, 0 <= hi (0-based, hi exclusive, clipped to the length)
Slice(s, lo, hi) == SubSeq(s, lo + 1, Min(hi, Len(s)))

\* s[-k:] for k >= 1: the last k elements, the whole of s when it is shorter
Tail_k(s, k) == SubSeq(s, Max(Len(s) - k, 0) + 1, Len(s))

RECURSIVE Concat(_)
Concat(tokens) ==
    IF tokens = <<>> THEN <<>>
    ELSE Head(tokens) \o Concat(Tail(tokens))

RECURSIVE JoinSp(_)
JoinSp(tokens) ==
    IF tokens = <<>> THEN <<>>
    ELSE IF Len(tokens) = 1 THEN Head(tokens)
    ELSE Head(tokens) \o <<SP>> \o JoinSp(Tail(tokens))

\* str.split(' '): cut at every single space; '' gives ['']
RECURSIVE SplitSp(_)
SplitSp(s) ==
    IF \A i \in 1..Len(s) : s[i] # SP THEN <<s>>
    ELSE LET i == CHOOSE j \in 1..Len(s) :
                      s[j] = SP /\ \A m \in 1..(j - 1) : s[m] # SP
         IN  <<SubSeq(s, 1, i - 1)>> \o SplitSp(SubSeq(s, i + 1, Len(s)))

\* str.startswith
StartsWith(s, p) == Len(p) <= Len(s) /\ SubSeq(s, 1, Len(p)) = p

RECURSIVE SumSeq(_)
SumSeq(s) == IF s = <<>> THEN 0 ELSE Head(s) + SumSeq(Tail(s))

(* dict *)

DictHas(d, k) == \E i \in 1..Len(d) : d[i][1] = k

DictGet(d, k) == d[CHOOSE i \in 1..Len(d) : d[i][1] = k][2]

DictSet(d, k, v) ==
    IF DictHas(d, k)
    THEN [i \in 1..Len(d) |-> IF d[i][1] = k THEN <<k, v>> ELSE d[i]]
    ELSE Append(d, <<k, v>>)

DictKeys(d) == [i \in 1..Len(d) |-> d[i][1]]

DictValues(d) == [i \in 1..Len(d) |-> d[i][2]]

\* d[k] on a defaultdict(int): a missing key is inserted with int() = 0
DefaultGetItem(d, k) == IF DictHas(d, k) THEN d ELSE Append(d, <<k, 0>>)

(* --------------------------- tokenization ----------------------------- *)

split(text) ==
    IF use_chars THEN [i \in 1..Len(text) |-> <<text[i]>>]
    ELSE IF text = <<>> THEN <<>>
    ELSE SplitSp(text)

join(tokens) == IF use_chars THEN Concat(tokens) ELSE JoinSp(tokens)

\* idx is the 0-based index of the last token; n_size = 0 stands for None
get_ngram_by_last_index(s, idx, n_size) ==
    LET size == IF n_size = 0 THEN n ELSE n_size
        span == Slice(s, Max(idx - size + 1, 0), idx + 1)
    IN  IF use_chars THEN Concat(span) ELSE JoinSp(span)

\* <<context, last_gram>>
split_context_gram(ngram) ==
    IF use_chars
    THEN <<SubSeq(ngram, 1, Len(ngram) - 1), <<ngram[Len(ngram)]>> >>
    ELSE LET ngram_split == SplitSp(ngram)
         IN  <<join(SubSeq(ngram_split, 1, Len(ngram_split) - 1)),
               ngram_split[Len(ngram_split)]>>

(* ------------------------------ training ------------------------------ *)

\* lines 40-51: one iteration of the inner loop, on st = [cbn, md]
build_step(st, splitted, idx, size) ==
    LET ngram == get_ngram_by_last_index(splitted, idx, size)
        cg == split_context_gram(ngram)
        context == cg[1]
        last_gram == cg[2]
        k == Len(split(context))
        n_size_context == st.cbn[k]
        inner == IF DictHas(n_size_context, context)
                 THEN LET old == DictGet(n_size_context, context)
                      IN  IF DictHas(old, last_gram)
                          THEN DictSet(old, last_gram, DictGet(old, last_gram) + 1)
                          ELSE DictSet(old, last_gram, 1)
                 ELSE <<<<last_gram, 1>>>>
        md1 == IF size = n
               THEN LET md0 == DefaultGetItem(st.md, ngram)
                    IN  DictSet(md0, ngram, DictGet(md0, ngram) + 1)
               ELSE st.md
    IN  [cbn |-> [st.cbn EXCEPT ![k] = DictSet(n_size_context, context, inner)],
         md |-> md1]

\* lines 38-39: for size in 1..n, for idx from len-1 down to size-1
RECURSIVE build_loop(_, _, _, _)
build_loop(st, splitted, size, idx) ==
    IF size > n THEN st
    ELSE IF idx < size - 1
         THEN build_loop(st, splitted, size + 1, Len(splitted) - 1)
         ELSE build_loop(build_step(st, splitted, idx, size), splitted, size, idx - 1)

\* lines 53-56
sum_per_context(cbn) ==
    [i \in 1..Len(cbn[n - 1]) |-> SumSeq(DictValues(cbn[n - 1][i][2]))]

\* contexts_prob_of with each context weighed by its number of distinct
\* following tokens (len in place of sum at line 53)
contexts_prob_of_distinct(cbn) ==
    LET spc == [i \in 1..Len(cbn[n - 1]) |-> Len(cbn[n - 1][i][2])]
        sum_all_context == SumSeq(spc)
    IN  [i \in 1..Len(spc) |-> <<spc[i], sum_all_context>>]

contexts_prob_of(cbn) ==
    LET spc == sum_per_context(cbn)
        sum_all_context == SumSeq(spc)
    IN  [i \in 1..Len(spc) |-> <<spc[i], sum_all_context>>]

\* the fields build_model leaves, from the model_dict it finds
build_model(md, text) ==
    LET splitted == split(text)
        fresh == [i \in 0..(n - 1) |-> <<>>]
        st == build_loop([cbn |-> fresh, md |-> md], splitted, 1, Len(splitted) - 1)
    IN  [model_dict |-> st.md,
         context_by_n |-> st.cbn,
         V |-> Len(st.md),
         contexts_prob |-> contexts_prob_of(st.cbn)]

NoCall == [op |-> "none", seeded |-> FALSE, context |-> <<>>, target |-> 0, text |-> <<>>]

NoRet == [raised |-> FALSE, val |-> <<>>, draws |-> 0, drawn |-> <<>>,
          exhausted |-> FALSE, terms |-> <<>>]

Init ==
    /\ n \in 1..MaxN
    /\ use_chars \in BOOLEAN
    /\ model_dict = <<>>
    /\ V = 0
    /\ context_by_n = <<>>
    /\ contexts_prob = <<>>
    /\ built = FALSE
    /\ trained_on = <<>>
    /\ call = NoCall
    /\ ret = NoRet

BuildModel(text) ==
    LET b == build_model(model_dict, text)
    IN  /\ model_dict' = b.model_dict
        /\ context_by_n' = b.context_by_n
        /\ V' = b.V
        /\ contexts_prob' = b.contexts_prob
        /\ built' = TRUE
        /\ trained_on' = Append(trained_on, text)
        /\ call' = [NoCall EXCEPT !.op = "build_model", !.text = text]
        /\ ret' = NoRet
        /\ UNCHANGED <<n, use_chars>>

(* ----------------------------- table reads ---------------------------- *)

\* the tables after the expression self.context_by_n[k][context] is evaluated
cbn_getitem(tabs, k, context) ==
    [tabs EXCEPT ![k] = DefaultGetItem(tabs[k], context)]

\* lookup_tables without the membership test: the read of a missing context
\* inserts it
lookup_tables_unguarded(tabs, k, context) ==
    [tabs EXCEPT ![k] = IF DictHas(@, context) THEN @ ELSE Append(@, <<context, <<>>>>)]

\* the tables after "context in self.context_by_n[k]" followed, only when it
\* is true, by reads of self.context_by_n[k][context] (lines 206-213, 234,
\* 253-254, 268-269)
lookup_tables(tabs, k, context) ==
    IF DictHas(tabs[k], context) THEN cbn_getitem(tabs, k, context) ELSE tabs

(* ----------------------------- generation ----------------------------- *)

SeqRange(s) == {s[i] : i \in 1..Len(s)}

GenRet(tabs, raised, val, draws, drawn, exhausted) ==
    [tabs |-> tabs, raised |-> raised, val |-> val, draws |-> draws,
     drawn |-> drawn, exhausted |-> exhausted]

\* the results of get_initial_context: [kind, ctx] with kind "raise"
\* (random.choices on an empty population), "None" or "str"
get_initial_context(tabs, seeded, init_context) ==
    LET keys == DictKeys(tabs[n - 1])
    IN  IF ~seeded
        THEN IF keys = <<>> \/ Len(contexts_prob) # Len(keys)
             THEN {[kind |-> "raise", ctx |-> <<>>]}
             ELSE {[kind |-> "str", ctx |-> keys[i]] :
                      i \in {j \in 1..Len(keys) : contexts_prob[j][1] > 0}}
        ELSE LET optional_context ==
                     {c \in SeqRange(keys) : StartsWith(c, init_context)}
             IN  IF optional_context = {}
                 THEN {[kind |-> "None", ctx |-> <<>>]}
                 ELSE {[kind |-> "str", ctx |-> c] : c \in optional_context}

\* the context get_next_gram looks up (lines 201-204)
last_context_of(final_text) ==
    IF n = 1 THEN <<>> ELSE join(Tail_k(final_text, n - 1))

\* the tokens get_next_gram may return; {} stands for None
get_next_gram(tabs, final_text) ==
    LET last_context == last_context_of(final_text)
    IN  IF ~DictHas(tabs[n - 1], last_context) THEN {}
        ELSE LET following == DictGet(tabs[n - 1], last_context)
             IN  {following[i][1] : i \in {j \in 1..Len(following) : following[j][2] > 0}}

\* lines 164-169: the loop, every sequence of draws
RECURSIVE gen_loop(_, _, _, _, _)
gen_loop(tabs, final_text, target, draws, drawn) ==
    IF Len(final_text) >= target
    THEN {GenRet(tabs, FALSE, join(final_text), draws, drawn, FALSE)}
    ELSE LET grams == get_next_gram(tabs, final_text)
             tabs1 == lookup_tables(tabs, n - 1, last_context_of(final_text))
         IN  IF grams = {}
             THEN {GenRet(tabs1, FALSE, join(final_text), draws, drawn, TRUE)}
             ELSE UNION {gen_loop(tabs1, Append(final_text, g), target, draws + 1, drawn) :
                            g \in grams}

\* lines 161-169, from a context that is a str
gen_from(tabs, context, target, draws, drawn) ==
    LET final_text == split(context)
    IN  IF Len(final_text) > target
        THEN {GenRet(tabs, FALSE, join(Slice(split(context), 0, target)), draws, drawn, FALSE)}
        ELSE gen_loop(tabs, final_text, target, draws, drawn)

\* every result of generate(context, n = target); seeded = FALSE is context = None
generate(tabs, seeded, context, target) ==
    LET context_len == IF seeded THEN Len(split(context)) ELSE 0
    IN  IF context_len > target
        THEN {GenRet(tabs, FALSE, join(Slice(split(context), 0, target)), 0, <<>>, FALSE)}
        ELSE IF context_len < n - 1
        THEN UNION {
               CASE o.kind = "raise" -> {GenRet(tabs, TRUE, <<>>, 0, <<>>, FALSE)}
                 [] o.kind = "None" -> {GenRet(tabs, FALSE, context, 0, <<>>, TRUE)}
                 [] OTHER -> gen_from(tabs, o.ctx, target, 1, <<o.ctx>>) :
               o \in get_initial_context(tabs, seeded, context)}
        ELSE IF ~seeded
        THEN {GenRet(tabs, TRUE, <<>>, 0, <<>>, FALSE)}   \* self.split(None)
        ELSE gen_from(tabs, context, target, 0, <<>>)

(* ----------------------------- evaluation ----------------------------- *)

\* c_ngram / c_context
get_prob(tabs, context, last_gram) ==
    LET context_len == Len(split(context))
        following == DictGet(tabs[context_len], context)
    IN  <<DictGet(following, last_gram), SumSeq(DictValues(following))>>

\* smooth without the vocabulary size: 1 / c_context
smooth_without_V(tabs, context) ==
    LET context_len == Len(split(context))
        c_context == IF DictHas(tabs[context_len], context)
                     THEN SumSeq(DictValues(DictGet(tabs[context_len], context)))
                     ELSE 0
    IN  <<1, c_context>>

\* 1 / (c_context + V)
smooth(tabs, context) ==
    LET context_len == Len(split(context))
        c_context == IF DictHas(tabs[context_len], context)
                     THEN SumSeq(DictValues(DictGet(tabs[context_len], context)))
                     ELSE 0
    IN  <<1, c_context + V>>

\* lines 231-237: one iteration, on st = [tabs, terms, raised]
eval_step(st, splitted, i) ==
    LET ngram == get_ngram_by_last_index(splitted, i, 0)
        cg == split_context_gram(ngram)
        context == cg[1]
        last_gram == cg[2]
        context_len == Len(split(context))
        seen == /\ DictHas(st.tabs[context_len], context)
                /\ DictHas(DictGet(st.tabs[context_len], context), last_gram)
        p == IF seen THEN get_prob(st.tabs, context, last_gram)
             ELSE smooth(st.tabs, context)
    IN  [tabs |-> lookup_tables(st.tabs, context_len, context),
         terms |-> IF p[2] = 0 THEN st.terms ELSE Append(st.terms, p),
         raised |-> p[2] = 0]          \* ZeroDivisionError

\* line 230: for i from len-1 down to 0; an exception ends the call
RECURSIVE eval_loop(_, _, _)
eval_loop(st, splitted, i) ==
    IF i < 0 \/ st.raised THEN st
    ELSE eval_loop(eval_step(st, splitted, i), splitted, i - 1)

evaluate(tabs, text) ==
    LET splitted == split(text)
    IN  eval_loop([tabs |-> tabs, terms |-> <<>>, raised |-> FALSE],
                  splitted, Len(splitted) - 1)

(* ------------------------------- actions ------------------------------ *)

Seeds == {[seeded |-> FALSE, context |-> <<>>]} \cup
         {[seeded |-> TRUE, context |-> s] : s \in Strs(MaxSeedLen)}

\* build_model on a model object that was never trained: training is the one
\* writing phase, and generate and evaluate follow it
Train ==
    /\ ~built
    /\ \E text \in Strs(MaxCorpusLen) : BuildModel(text)

\* build_model on any model object, trained or not
Retrain ==
    /\ Len(trained_on) < MaxBuilds
    /\ \E text \in Strs(MaxCorpusLen) : BuildModel(text)

\* generate on a trained model; until build_model has run context_by_n is
\* None and there is no table to read
Generate ==
    /\ built
    /\ \E seed \in Seeds, target \in 0..MaxTarget :
         \E r \in generate(context_by_n, seed.seeded, seed.context, target) :
            /\ context_by_n' = r.tabs
            /\ call' = [op |-> "generate", seeded |-> seed.seeded,
                        context |-> seed.context, target |-> target, text |-> <<>>]
            /\ ret' = [raised |-> r.raised, val |-> r.val, draws |-> r.draws,
                       drawn |-> r.drawn, exhausted |-> r.exhausted, terms |-> <<>>]
    /\ UNCHANGED <<n, use_chars, model_dict, V, contexts_prob, built, trained_on>>

\* evaluate on a trained model
Evaluate ==
    /\ built
    /\ \E text \in Strs(MaxTextLen) :
         LET r == evaluate(context_by_n, text)
         IN  /\ context_by_n' = r.tabs
             /\ call' = [NoCall EXCEPT !.op = "evaluate", !.text = text]
             /\ ret' = [NoRet EXCEPT !.raised = r.raised, !.terms = r.terms]
    /\ UNCHANGED <<n, use_chars, model_dict, V, contexts_prob, built, trained_on>>

Next == Train \/ Generate \/ Evaluate

\* construction, one training, then any sequence of generate and evaluate
Spec == Init /\ [][Next]_vars

NextRetrain == Retrain

\* construction, then build_model called repeatedly on the same object
SpecRetrain == Init /\ [][NextRetrain]_vars

(* ------------------------- reference notions -------------------------- *)

IsPrefixOf(p, s) == Len(p) <= Len(s) /\ SubSeq(s, 1, Len(p)) = p

\* the corpus of the last build_model call, tokenized
Corpus == split(trained_on[Len(trained_on)])

\* the number of positions of S at which the tokens ctx are immediately
\* followed by a token
Occurrences(ctx, S) ==
    Cardinality({p \in 1..Len(S) :
                    p > Len(ctx) /\ SubSeq(S, p - Len(ctx), p - 1) = ctx})

\* a / b = c / d, for b, d > 0
SameQuotient(x, y) == x[1] * y[2] = y[1] * x[2]

DictEq(d1, d2) == SeqRange(d1) = SeqRange(d2)

Total(following) == SumSeq(DictValues(following))

\* the tokens of text's position i (0-based): the window of at most n tokens
\* ending there, as <<context tokens, final token>>
WindowAt(S, i) ==
    LET w == SubSeq(S, Max(i - n + 1, 0) + 1, i + 1)
    IN  <<SubSeq(w, 1, Len(w) - 1), w[Len(w)]>>

\* the probability the scoring rule gives position i of S, from the tables
TermAt(S, i) ==
    LET ctx == WindowAt(S, i)[1]
        final == WindowAt(S, i)[2]
        tab == context_by_n[Len(ctx)]
        c == join(ctx)
    IN  IF DictHas(tab, c) /\ DictHas(DictGet(tab, c), final)
        THEN <<DictGet(DictGet(tab, c), final), Total(DictGet(tab, c))>>
        ELSE <<1, (IF DictHas(tab, c) THEN Total(DictGet(tab, c)) ELSE 0) + V>>

\* some position of text has a context that no table holds
UnseenContextIn(text) ==
    \E i \in 0..(Len(split(text)) - 1) :
        LET c == split_context_gram(get_ngram_by_last_index(split(text), i, 0))[1]
        IN  ~DictHas(context_by_n[Len(split(c))], c)

(* ------------------------------- claims ------------------------------- *)

\* C1: generate(seed, target_length) with a seed of at least target_length
\* tokens returns exactly the first target_length tokens of the seed, joined,
\* and makes no random draw.
C1_SeedPrefixNoDraw ==
    (call.op = "generate" /\ call.seeded
        /\ Len(split(call.context)) >= call.target)
    => /\ ~ret.raised
       /\ ret.val = join(SubSeq(split(call.context), 1, call.target))
       /\ ret.draws = 0

\* C2: when generate finds no matching or continuing context, as when
\* context_by_n[n-1] is empty and no seed is given, it returns the partial
\* result (the seed, or the text built so far) and does not raise.  Stated
\* for window sizes above 1, where a full-order context is looked for.
C2_ExhaustionNeverRaises ==
    (call.op = "generate" /\ n > 1 /\ context_by_n[n - 1] = <<>>
        /\ ~(call.seeded /\ Len(split(call.context)) > call.target))
    => /\ ~ret.raised
       /\ ret.val = (IF call.seeded THEN call.context ELSE <<>>)

\* C3: generate returns a string of at most target_length tokens, and of
\* exactly target_length tokens unless generation stopped on an absent
\* context; window size 1 with no seed included.
C3_LengthContract ==
    call.op = "generate"
    => /\ ~ret.raised
       /\ Len(split(ret.val)) <= call.target
       /\ (Len(split(ret.val)) = call.target \/ ret.exhausted)

\* C4: a generate or evaluate call on a trained model leaves model_dict,
\* context_by_n, V and contexts_prob as they were.
C4_ReadOnly ==
    [][call'.op \in {"generate", "evaluate"}
         => /\ model_dict' = model_dict
            /\ context_by_n' = context_by_n
            /\ V' = V
            /\ contexts_prob' = contexts_prob]_vars

\* an evaluate call that met a context absent from the tables
C4_Witness ==
    /\ call.op = "evaluate"
    /\ ~ret.raised
    /\ UnseenContextIn(call.text)

\* C5: evaluate scores each position with its window of at most n tokens:
\* count of the pair / total of the context when the pair is in
\* context_by_n at the context's length, else 1 / (total of the context, 0
\* when unseen, + V); the result is the sum of the log terms, no term for the
\* empty text.  Stated for V > 0, where every quotient has a denominator.
C5_EvaluateTerms ==
    (call.op = "evaluate" /\ V > 0 /\ ~ret.raised)
    => LET S == split(call.text)
       IN  /\ Len(ret.terms) = Len(S)
           /\ \A j \in 1..Len(S) : SameQuotient(ret.terms[j], TermAt(S, Len(S) - j))

\* C6: with V > 0, evaluate does not raise and every per-position
\* probability is greater than 0 and at most 1 (so the sum of the logs is
\* defined and not positive).
C6_EvaluateDefined ==
    (call.op = "evaluate" /\ V > 0)
    => /\ ~ret.raised
       /\ Len(ret.terms) = Len(split(call.text))
       /\ \A j \in 1..Len(ret.terms) :
             0 < ret.terms[j][1] /\ ret.terms[j][1] <= ret.terms[j][2]

\* an evaluate call with V > 0 that met an unseen context and scored some
\* position below 1
C6_Witness ==
    /\ call.op = "evaluate"
    /\ V > 0
    /\ UnseenContextIn(call.text)
    /\ \E j \in 1..Len(ret.terms) : ret.terms[j][1] < ret.terms[j][2]

\* C7: build_model called twice with the same corpus on a fresh object gives
\* the model_dict, context_by_n and V of a fresh object trained once.
C7_RetrainIdempotent ==
    (Len(trained_on) = 2 /\ trained_on[1] = trained_on[2])
    => LET once == build_model(<<>>, trained_on[1])
       IN  /\ DictEq(model_dict, once.model_dict)
           /\ context_by_n = once.context_by_n
           /\ V = once.V

\* C8: after build_model, every context stored in context_by_n[k] has k
\* tokens, its counts sum to the number of corpus positions where it is
\* immediately followed by a token, and every count is at least 1.
C8_ContextCounts ==
    built
    => \A k \in 0..(n - 1) : \A i \in 1..Len(context_by_n[k]) :
          LET c == context_by_n[k][i][1]
              following == context_by_n[k][i][2]
          IN  /\ Len(split(c)) = k
              /\ Total(following) = Occurrences(split(c), Corpus)
              /\ \A j \in 1..Len(following) : following[j][2] >= 1

\* C9: for a seed of fewer than n-1 tokens, the context generate draws is a
\* key of context_by_n[n-1] whose tokens start with the seed's tokens; when
\* no key does, the seed is returned unchanged.
C9_TokenPrefixContext ==
    (call.op = "generate" /\ call.seeded
        /\ Len(split(call.context)) < n - 1
        /\ Len(split(call.context)) <= call.target)
    => /\ ret.drawn # <<>>
          => /\ DictHas(context_by_n[n - 1], ret.drawn[1])
             /\ IsPrefixOf(split(call.context), split(ret.drawn[1]))
       /\ (\A i \in 1..Len(context_by_n[n - 1]) :
              ~IsPrefixOf(split(call.context), split(context_by_n[n - 1][i][1])))
          => (ret.drawn = <<>> /\ ~ret.raised /\ ret.val = call.context)

\* the sum over every context of context_by_n[n-1] of its following-token
\* counts
AllFollowing ==
    SumSeq([i \in 1..Len(context_by_n[n - 1]) |->
               SumSeq([j \in 1..Len(context_by_n[n - 1][i][2]) |->
                          context_by_n[n - 1][i][2][j][2]])])

ProbsPerContext ==
    /\ Len(contexts_prob) = Len(context_by_n[n - 1])
    /\ \A i \in 1..Len(contexts_prob) :
          contexts_prob[i] = <<Total(context_by_n[n - 1][i][2]), AllFollowing>>

ProbsSumToOne ==
    /\ AllFollowing > 0
    /\ SumSeq([i \in 1..Len(contexts_prob) |-> contexts_prob[i][1]]) = AllFollowing
    /\ \A i \in 1..Len(contexts_prob) : contexts_prob[i][2] = AllFollowing

\* C10 as stated: for every trained model contexts_prob has one entry per key
\* of context_by_n[n-1], each that context's share of the following-token
\* counts, and the entries sum to 1.
C10_ProbsSumToOne ==
    built => (ProbsPerContext /\ ProbsSumToOne)

\* C10 as amended: the entries are the contexts' shares, and they sum to 1
\* when context_by_n[n-1] holds a context; when it holds none, contexts_prob
\* is empty.
C10_ProbsSumToOneUnlessEmpty ==
    built => /\ ProbsPerContext
             /\ context_by_n[n - 1] # <<>> => ProbsSumToOne
             /\ context_by_n[n - 1] = <<>> => contexts_prob = <<>>

\* a trained model with two contexts of unequal shares
C10_Witness ==
    /\ built
    /\ Len(contexts_prob) >= 2
    /\ contexts_prob[1][1] # contexts_prob[2][1]

=============================================================================
